---- MODULE Spec2Model ----
(***************************************************************************)
(* Model of frontend/src/components/Table.jsx: the Table component (lead   *)
(* list view) and the LeadModal component (lead editor), together with the *)
(* REST endpoint /api/leads they talk to.  Every await in the source is a  *)
(* point where other handlers may run, so each async function is split at  *)
(* its await into the part that sends the request and the continuation     *)
(* that handles the settled fetch.                                         *)
(***************************************************************************)
EXTENDS Integers, Sequences, FiniteSets, TLC

\* ------------------------------------------------------------- bounds
\* How many field edits and requests (GET and POST together) one run holds.
MaxInputs == 4

\* ------------------------------------------------------------- values
\* The fixed message of getLeads' failure branch.
LoadFailed == "Something went wrong!"
\* The fixed message of handleCreateLead's failure branch.
CreateFailed == "Something went wrong when creating lead"

\* What the user can type into one input.
FieldValues == {"", "a"}
\* The five useState cells of LeadModal.
FieldNames == {"firstName", "lastName", "company", "email", "note"}

\* A nullable value: <<>> is null, <<v>> holds v.
Null == <<>>
Some(v) == <<v>>

\* JavaScript truthiness of the three values activeModal and id take
\* (false, true, null), written as strings.
Truthy(v) == v = "true"
\* JavaScript's ! on those values.
Not(v) == IF Truthy(v) THEN "false" ELSE "true"

\* How a settled fetch looks to the code that awaited it:
\*   ok       response.ok is true and the body parses
\*   notok    response.ok is false
\*   reject   the fetch promise rejects (network failure)
\*   badbody  response.ok is true and response.json() rejects
GetOutcomes == {"ok", "notok", "reject", "badbody"}
PostOutcomes == {"ok", "notok", "reject"}

VARIABLES
    mounted,       \* the mount effect has run
    leads,         \* Table: useState(null)
    errorMessage,  \* Table: useState('')
    loaded,        \* Table: useState(false)
    activeModal,   \* Table: useState(false)
    id,            \* Table: useState(null)
    form,          \* LeadModal: the five useState('') cells
    gets,          \* the GET requests issued so far, in issue order
    posts,         \* the POST requests issued so far, in issue order
    db,            \* the leads the server holds
    uncaught,      \* some handler ended in an unhandled rejection
    edits          \* how many onChange events the run has held

vars ==
    <<mounted, leads, errorMessage, loaded, activeModal, id, form, gets,
      posts, db, uncaught, edits>>

\* ------------------------------------------------------------ LeadModal
\* cleanFormData with the setNote('') call left out.
cleanFormData_skipsNote ==
    [form EXCEPT !.firstName = "", !.lastName = "", !.company = "",
                 !.email = ""]

\* The form with every cell set to ''.
cleanFormData ==
    [firstName |-> "", lastName |-> "", company |-> "", email |-> "",
     note |-> ""]

\* The object handleCreateLead serialises as the POST body.
RequestBody(f) ==
    [first_name |-> f.firstName, last_name |-> f.lastName,
     company |-> f.company, email |-> f.email, note |-> f.note]

\* The record the server stores for the k-th POST.
NewLead(k, body) ==
    [id |-> k, first_name |-> body.first_name, last_name |-> body.last_name,
     company |-> body.company, email |-> body.email, note |-> body.note]

\* ---------------------------------------------------------------- Table
\* The ids of the leads the server holds.
Stored == {db[n].id : n \in 1..Len(db)}

\* getLeads up to its await: one GET is sent.  The request also records the
\* moment it was issued at: who called getLeads (mount, close, created), the
\* modal flag and the error message then, and the leads the server held.
SendGet(by, was) ==
    Append(gets, [st |-> "sent", res |-> "none", data |-> <<>>, by |-> by,
                  was |-> was, err |-> errorMessage, stored |-> Stored])

\* getLeads with a failure branch that also drops the list.
getLeads_clearsOnFail(res, data) ==
    CASE res = "notok" ->
           [leads |-> Null, loaded |-> FALSE,
            errorMessage |-> LoadFailed, uncaught |-> uncaught]
      [] res = "ok" ->
           [leads |-> Some(data), loaded |-> TRUE,
            errorMessage |-> errorMessage, uncaught |-> uncaught]
      [] OTHER ->
           [leads |-> leads, loaded |-> loaded,
            errorMessage |-> errorMessage, uncaught |-> TRUE]

\* getLeads with a success branch that marks the view loaded only when the
\* response holds a lead.
getLeads_needsRows(res, data) ==
    CASE res = "notok" ->
           [leads |-> leads, loaded |-> loaded,
            errorMessage |-> LoadFailed, uncaught |-> uncaught]
      [] res = "ok" ->
           [leads |-> Some(data), loaded |-> (loaded \/ Len(data) > 0),
            errorMessage |-> errorMessage, uncaught |-> uncaught]
      [] OTHER ->
           [leads |-> leads, loaded |-> loaded,
            errorMessage |-> errorMessage, uncaught |-> TRUE]

\* getLeads with a success branch that also resets the error message.
getLeads_clearsError(res, data) ==
    CASE res = "notok" ->
           [leads |-> leads, loaded |-> loaded,
            errorMessage |-> LoadFailed, uncaught |-> uncaught]
      [] res = "ok" ->
           [leads |-> Some(data), loaded |-> TRUE,
            errorMessage |-> "", uncaught |-> uncaught]
      [] OTHER ->
           [leads |-> leads, loaded |-> loaded,
            errorMessage |-> errorMessage, uncaught |-> TRUE]

\* getLeads after its await, by how the fetch settled: the new values of
\* the state cells it may set.
getLeads(res, data) ==
    CASE res = "notok" ->
           [leads |-> leads, loaded |-> loaded,
            errorMessage |-> LoadFailed, uncaught |-> uncaught]
      [] res = "ok" ->
           [leads |-> Some(data), loaded |-> TRUE,
            errorMessage |-> errorMessage, uncaught |-> uncaught]
      [] OTHER ->
           [leads |-> leads, loaded |-> loaded,
            errorMessage |-> errorMessage, uncaught |-> TRUE]

\* handleModal with the closing setActiveModal(null) left out.
handleModal_togglesOnly(by) ==
    [activeModal |-> Not(activeModal), gets |-> SendGet(by, activeModal)]

\* handleModal: setActiveModal(!activeModal); getLeads(); setActiveModal(null).
\* The last setter call wins; one GET is sent.
handleModal(by) ==
    LET toggled == Not(activeModal)
        final == "null"
    IN  [activeModal |-> final, gets |-> SendGet(by, activeModal)]

\* handleCreateLead with a failure branch that also empties the form.
handleCreateLead_cleansOnFail(res) ==
    CASE res = "notok" ->
           [form |-> cleanFormData, activeModal |-> activeModal,
            gets |-> gets, leads |-> leads, errorMessage |-> CreateFailed,
            uncaught |-> uncaught]
      [] res = "ok" ->
           [form |-> cleanFormData,
            activeModal |-> handleModal("created").activeModal,
            gets |-> handleModal("created").gets,
            leads |-> leads, errorMessage |-> errorMessage,
            uncaught |-> uncaught]
      [] OTHER ->
           [form |-> form, activeModal |-> activeModal, gets |-> gets,
            leads |-> leads, errorMessage |-> errorMessage,
            uncaught |-> TRUE]

\* handleCreateLead with a success branch that puts the new lead into the
\* list itself.
handleCreateLead_optimistic(res) ==
    CASE res = "notok" ->
           [form |-> form, activeModal |-> activeModal, gets |-> gets,
            leads |-> leads, errorMessage |-> CreateFailed,
            uncaught |-> uncaught]
      [] res = "ok" ->
           [form |-> cleanFormData,
            activeModal |-> handleModal("created").activeModal,
            gets |-> handleModal("created").gets,
            leads |-> Some((IF leads = Null THEN <<>> ELSE leads[1])
                           \o <<NewLead(0, RequestBody(form))>>),
            errorMessage |-> errorMessage, uncaught |-> uncaught]
      [] OTHER ->
           [form |-> form, activeModal |-> activeModal, gets |-> gets,
            leads |-> leads, errorMessage |-> errorMessage,
            uncaught |-> TRUE]

\* handleCreateLead after its await, by how the fetch settled.
handleCreateLead(res) ==
    CASE res = "notok" ->
           [form |-> form, activeModal |-> activeModal, gets |-> gets,
            leads |-> leads, errorMessage |-> CreateFailed,
            uncaught |-> uncaught]
      [] res = "ok" ->
           [form |-> cleanFormData,
            activeModal |-> handleModal("created").activeModal,
            gets |-> handleModal("created").gets,
            leads |-> leads, errorMessage |-> errorMessage,
            uncaught |-> uncaught]
      [] OTHER ->
           [form |-> form, activeModal |-> activeModal, gets |-> gets,
            leads |-> leads, errorMessage |-> errorMessage,
            uncaught |-> TRUE]

\* What the component renders below the button: the placeholder, or the
\* table with one body row per lead.
Rendered ==
    IF loaded /\ leads # Null
    THEN [view |-> "table", rows |-> Len(leads[1])]
    ELSE [view |-> "Loading", rows |-> 0]

\* POST requests whose continuation has not run yet.
PendingPosts == {k \in 1..Len(posts) : posts[k].st # "done"}
\* The edits and requests of the run so far, counting for every create in
\* flight the reload its success will issue.
Used == edits + Len(gets) + Len(posts) + Cardinality(PendingPosts)
\* Room for one more edit or GET.
GetRoom == Used < MaxInputs
\* Room for one more POST and its reload.
PostRoom == Used + 2 <= MaxInputs

\* -------------------------------------------------------------- actions
Init ==
    /\ mounted = FALSE
    /\ leads = Null
    /\ errorMessage = ""
    /\ loaded = FALSE
    /\ activeModal = "false"
    /\ id = "null"
    /\ form = [f \in FieldNames |-> ""]
    /\ gets = <<>>
    /\ posts = <<>>
    /\ db = <<>>
    /\ uncaught = FALSE
    /\ edits = 0

\* useEffect(() => { getLeads(); }, [])
Mount ==
    /\ ~mounted
    /\ mounted' = TRUE
    /\ gets' = SendGet("mount", activeModal)
    /\ UNCHANGED <<leads, errorMessage, loaded, activeModal, id, form, posts,
                   db, uncaught, edits>>

\* The Create Lead button: setActiveModal(true).
OpenCreateEditor ==
    /\ mounted
    /\ activeModal' = "true"
    /\ UNCHANGED <<mounted, leads, errorMessage, loaded, id, form, gets,
                   posts, db, uncaught, edits>>

\* An input's onChange, reachable while the modal is shown.
UpdateField(f, v) ==
    /\ mounted
    /\ Truthy(activeModal)
    /\ GetRoom
    /\ edits' = edits + 1
    /\ form' = [form EXCEPT ![f] = v]
    /\ UNCHANGED <<mounted, leads, errorMessage, loaded, activeModal, id,
                   gets, posts, db, uncaught>>

\* The Create button (shown when id is falsy): handleCreateLead up to its
\* await sends one POST with the current field values.
SubmitCreate ==
    /\ mounted
    /\ Truthy(activeModal)
    /\ ~Truthy(id)
    /\ PostRoom
    /\ posts' = Append(posts, [st |-> "sent", res |-> "none",
                               body |-> RequestBody(form)])
    /\ UNCHANGED <<mounted, leads, errorMessage, loaded, activeModal, id,
                   form, gets, db, uncaught, edits>>

\* The Cancel button: onClick={handleModal}.
Cancel ==
    /\ mounted
    /\ Truthy(activeModal)
    /\ GetRoom
    /\ activeModal' = handleModal("close").activeModal
    /\ gets' = handleModal("close").gets
    /\ UNCHANGED <<mounted, leads, errorMessage, loaded, id, form, posts, db,
                   uncaught, edits>>

\* The modal background: onClick={handleModal}.
Backdrop ==
    /\ mounted
    /\ Truthy(activeModal)
    /\ GetRoom
    /\ activeModal' = handleModal("close").activeModal
    /\ gets' = handleModal("close").gets
    /\ UNCHANGED <<mounted, leads, errorMessage, loaded, id, form, posts, db,
                   uncaught, edits>>

\* The network and the server settle the i-th GET: a 2xx answer carries the
\* leads the server holds at that moment.
SettleGet(i, res) ==
    /\ i \in 1..Len(gets)
    /\ gets[i].st = "sent"
    /\ gets' = [gets EXCEPT ![i].st = "settled", ![i].res = res,
                            ![i].data = IF res = "ok" THEN db ELSE <<>>]
    /\ UNCHANGED <<mounted, leads, errorMessage, loaded, activeModal, id,
                   form, posts, db, uncaught, edits>>

\* The network and the server settle the k-th POST: a 2xx answer means the
\* lead was stored.
SettlePost(k, res) ==
    /\ k \in 1..Len(posts)
    /\ posts[k].st = "sent"
    /\ posts' = [posts EXCEPT ![k].st = "settled", ![k].res = res]
    /\ db' = IF res = "ok" THEN Append(db, NewLead(k, posts[k].body)) ELSE db
    /\ UNCHANGED <<mounted, leads, errorMessage, loaded, activeModal, id,
                   form, gets, uncaught, edits>>

\* getLeads resumes after its await for the i-th GET.
GetLeadsResume(i) ==
    /\ i \in 1..Len(gets)
    /\ gets[i].st = "settled"
    /\ leads' = getLeads(gets[i].res, gets[i].data).leads
    /\ loaded' = getLeads(gets[i].res, gets[i].data).loaded
    /\ errorMessage' = getLeads(gets[i].res, gets[i].data).errorMessage
    /\ uncaught' = getLeads(gets[i].res, gets[i].data).uncaught
    /\ gets' = [gets EXCEPT ![i].st = "done"]
    /\ UNCHANGED <<mounted, activeModal, id, form, posts, db, edits>>

\* handleCreateLead resumes after its await for the k-th POST.
HandleCreateLeadResume(k) ==
    /\ k \in 1..Len(posts)
    /\ posts[k].st = "settled"
    /\ posts' = [posts EXCEPT ![k].st = "done"]
    /\ form' = handleCreateLead(posts[k].res).form
    /\ activeModal' = handleCreateLead(posts[k].res).activeModal
    /\ gets' = handleCreateLead(posts[k].res).gets
    /\ errorMessage' = handleCreateLead(posts[k].res).errorMessage
    /\ uncaught' = handleCreateLead(posts[k].res).uncaught
    /\ leads' = handleCreateLead(posts[k].res).leads
    /\ UNCHANGED <<mounted, loaded, id, db, edits>>

EditField == \E f \in FieldNames, v \in FieldValues : UpdateField(f, v)
GetSettles == \E i \in 1..MaxInputs, res \in GetOutcomes : SettleGet(i, res)
PostSettles == \E k \in 1..MaxInputs, res \in PostOutcomes : SettlePost(k, res)
GetResumes == \E i \in 1..MaxInputs : GetLeadsResume(i)
PostResumes == \E k \in 1..MaxInputs : HandleCreateLeadResume(k)

Next ==
    \/ Mount
    \/ OpenCreateEditor
    \/ EditField

    \/ SubmitCreate
    \/ Cancel
    \/ Backdrop
    \/ GetSettles
    \/ PostSettles
    \/ GetResumes
    \/ PostResumes

Spec == Init /\ [][Next]_vars

\* --------------------------------------------------------------- claims
\* The steps in which getLeads resumes for GET i settled as res.
GetLeadsResumeAs(i, res) == GetLeadsResume(i) /\ gets[i].res = res
\* The steps in which handleCreateLead resumes for POST k settled as res.
HandleCreateLeadResumeAs(k, res) ==
    HandleCreateLeadResume(k) /\ posts[k].res = res
\* The steps that run handleModal.
HandleModalStep ==
    \/ Cancel
    \/ Backdrop
    \/ \E k \in 1..Len(posts) : HandleCreateLeadResumeAs(k, "ok")
AllFieldsEmpty(f) == \A n \in FieldNames : f[n] = ""

\* C1: when getLeads resumes on a non-success response, the error message
\* becomes "Something went wrong!" and the lead list, the loaded flag and
\* with them what is rendered stay as they were.
C1_FailedLoadKeepsList ==
    [][\A i \in 1..Len(gets) :
          GetLeadsResumeAs(i, "notok") =>
              /\ errorMessage' = "Something went wrong!"
              /\ leads' = leads
              /\ loaded' = loaded
              /\ Rendered' = Rendered]_vars

\* A failed load was handled while a loaded list was on display.
C1_Witness ==
    /\ \E i \in 1..Len(gets) : gets[i].st = "done" /\ gets[i].res = "notok"
    /\ errorMessage = LoadFailed
    /\ loaded
    /\ leads # Null
    /\ Rendered.view = "table"

\* C2: when handleCreateLead resumes on a success response, all five form
\* fields become empty strings and exactly one GET is sent.
C2_CreateSuccessClearsAndReloadsOnce ==
    [][\A k \in 1..Len(posts) :
          HandleCreateLeadResumeAs(k, "ok") =>
              /\ AllFieldsEmpty(form')
              /\ Len(gets') = Len(gets) + 1
              /\ SubSeq(gets', 1, Len(gets)) = gets
              /\ gets'[Len(gets')].st = "sent"]_vars

\* A create with a filled-in note succeeded and its reload was sent.
C2_Witness ==
    /\ \E k \in 1..Len(posts) :
          /\ posts[k].st = "done"
          /\ posts[k].res = "ok"
          /\ posts[k].body.note = "a"
    /\ \E i \in 1..Len(gets) : gets[i].by = "created"
    /\ AllFieldsEmpty(form)

\* C3: when handleCreateLead resumes on a non-success response, the error
\* message becomes "Something went wrong when creating lead", and the form
\* fields, the modal flag and the requests sent stay as they were.
C3_CreateFailureKeepsForm ==
    [][\A k \in 1..Len(posts) :
          HandleCreateLeadResumeAs(k, "notok") =>
              /\ errorMessage' = "Something went wrong when creating lead"
              /\ form' = form
              /\ activeModal' = activeModal
              /\ gets' = gets
              /\ posts'[k].body = posts[k].body]_vars

\* A create failed with the modal open and the entered data still in the form.
C3_Witness ==
    /\ \E k \in 1..Len(posts) :
          /\ posts[k].st = "done"
          /\ posts[k].res = "notok"
          /\ RequestBody(form) = posts[k].body
    /\ errorMessage = CreateFailed
    /\ ~AllFieldsEmpty(form)
    /\ Truthy(activeModal)

\* C4: when getLeads resumes on a success response, the lead list becomes
\* exactly the sequence of the response and loaded becomes true, so the
\* table is rendered with one row per returned lead (zero rows for []).
C4_SuccessfulLoadReplacesList ==
    [][\A i \in 1..Len(gets) :
          GetLeadsResumeAs(i, "ok") =>
              /\ leads' = Some(gets[i].data)
              /\ loaded' = TRUE
              /\ Rendered' = [view |-> "table", rows |-> Len(gets[i].data)]]_vars

\* An empty response was handled last: the table is shown with no rows.
C4_Witness ==
    /\ \E i \in 1..Len(gets) :
          gets[i].st = "done" /\ gets[i].res = "ok" /\ gets[i].data = <<>>
    /\ leads = Some(<<>>)
    /\ loaded
    /\ Rendered = [view |-> "table", rows |-> 0]

\* C5: after Cancel or a backdrop click all five form fields are empty.
C5_CancelClearsForm ==
    [][(Cancel \/ Backdrop) => AllFieldsEmpty(form')]_vars

\* C6: whenever getLeads or handleCreateLead resumes on a failed request
\* (non-success, rejected fetch, unparsable body), the matching error message
\* is set and no rejection is left unhandled.
C6_EveryFailureCaught ==
    [][/\ \A i \in 1..Len(gets) :
             (GetLeadsResume(i) /\ gets[i].res # "ok") =>
                 errorMessage' = LoadFailed /\ ~uncaught'
       /\ \A k \in 1..Len(posts) :
             (HandleCreateLeadResume(k) /\ posts[k].res # "ok") =>
                 errorMessage' = CreateFailed /\ ~uncaught']_vars

\* The lead list is null or the body of a success response already handled.
ListIsAHandledResponse ==
    \/ leads = Null
    \/ \E i \in 1..Len(gets) :
          gets[i].st = "done" /\ gets[i].res = "ok" /\ leads = Some(gets[i].data)
\* Only getLeads resuming on a success response changes the lead list.
OnlyLoadChangesList ==
    leads' # leads => \E i \in 1..Len(gets) : GetLeadsResumeAs(i, "ok")
\* A list put on display comes from a GET issued when the server already
\* held every lead of it.
ListFromReloadIssuedAfterCreate ==
    \A i \in 1..Len(gets) :
        GetLeadsResumeAs(i, "ok") =>
            \A n \in 1..Len(gets[i].data) : gets[i].data[n].id \in gets[i].stored
\* C7 as stated: the list is null or a handled success response, only a
\* handled success response changes it, and a created lead is listed only by
\* a reload issued after its create succeeded.
C7_NoOptimisticUpdate ==
    /\ []ListIsAHandledResponse
    /\ [][OnlyLoadChangesList]_vars
    /\ [][ListFromReloadIssuedAfterCreate]_vars

\* C7 amended: the list is null or a handled success response and only a
\* handled success response changes it, so a created lead is listed only
\* once a success response holding it is handled; the GET of that response
\* may have been issued before the create succeeded.
C7_NoOptimisticUpdateAmended ==
    /\ []ListIsAHandledResponse
    /\ [][OnlyLoadChangesList]_vars

\* A created lead is on display although no create has been seen to succeed:
\* the list came from a GET issued before the create.
C7_Witness ==
    /\ leads # Null
    /\ leads # Some(<<>>)
    /\ \E k \in 1..Len(posts) : posts[k].st = "settled" /\ posts[k].res = "ok"
    /\ \A i \in 1..Len(gets) : gets[i].stored = {}

\* C8: every run of handleModal sends exactly one GET, leaves the modal
\* closed whatever the flag was, and leaves the list alone; no resumption of
\* getLeads, successful or not, changes the modal flag.
C8_HandleModalReloadsOnceAndCloses ==
    [][/\ HandleModalStep =>
             /\ Len(gets') = Len(gets) + 1
             /\ SubSeq(gets', 1, Len(gets)) = gets
             /\ gets'[Len(gets')].st = "sent"
             /\ ~Truthy(activeModal')
             /\ leads' = leads
       /\ \A i \in 1..Len(gets) :
             GetLeadsResume(i) => activeModal' = activeModal]_vars

\* handleModal ran from a successful create while the modal was already
\* closed; its reload has resolved and the modal is still closed.
C8_Witness ==
    /\ \E i \in 1..Len(gets) :
          /\ gets[i].by = "created"
          /\ gets[i].was = "null"
          /\ gets[i].st = "done"
    /\ \E i \in 1..Len(gets) : gets[i].by = "close"
    /\ ~Truthy(activeModal)

\* C9: the error message starts empty and, once non-empty, is non-empty in
\* every later state.
C9_ErrorMessageNeverCleared ==
    /\ errorMessage = ""
    /\ [][errorMessage # "" => errorMessage' # ""]_vars

\* A reload issued while an error was shown has succeeded, and an error is
\* still shown.
C9_Witness ==
    /\ \E i \in 1..Len(gets) :
          gets[i].err # "" /\ gets[i].st = "done" /\ gets[i].res = "ok"
    /\ errorMessage # ""

\* The GETs whose success response has been handled.
OkGets == {i \in 1..Len(gets) : gets[i].st = "done" /\ gets[i].res = "ok"}
\* Every request issued has been handled.
AllSettled ==
    /\ \A i \in 1..Len(gets) : gets[i].st = "done"
    /\ \A k \in 1..Len(posts) : posts[k].st = "done"

\* C10: once every request has settled, the list on display is the response
\* of the most recently issued successful GET.
C10_LatestIssuedWins ==
    (AllSettled /\ OkGets # {}) =>
        \E i \in OkGets :
            /\ \A j \in OkGets : j <= i
            /\ leads = Some(gets[i].data)

====
